---------------------------- MODULE Spec2Model ----------------------------
(***************************************************************************)
(* A model of the Garden-Overseer bot (src/bot.py): the aligned poll       *)
(* clock, the retry coordinator, the snapshot differ / mention matcher,    *)
(* the autonomous polling loop, the manual scrape command, the autoscrape  *)
(* switch and the subscribe / unsubscribe commands.                        *)
(*                                                                         *)
(* Strings whose characters matter (item names, want-strings) are          *)
(* sequences of ASCII codes: <<97, 98>> is "ab", <<65>> is "A".  Strings   *)
(* that are only compared for equality (category labels, quantity labels,  *)
(* error texts, user ids) are TLA+ strings.                                *)
(*                                                                         *)
(* The bot runs on one asyncio event loop: a handler runs uninterrupted    *)
(* from one await that really suspends (network fetch, sleep, message      *)
(* send) to the next.  Each action below is one such uninterrupted         *)
(* stretch of one handler.                                                 *)
(***************************************************************************)
EXTENDS Integers, Sequences, FiniteSets, TLC

VARIABLES
    \* ---- calculate_next_scrape_time called on its own
    now,                \* the wall-clock time handed to the function
    next_time,          \* the datetime it returned
    pc_clock,           \* "idle" | "done"
    \* ---- scrape_with_retries (locals of the running call)
    max_attempts,       \* parameter max_attempts
    attempts,           \* local attempts
    error,              \* local error
    delays,             \* number of asyncio.sleep(delay) started by the call
    outcomes,           \* what each scrape_garden_stock of the call returned
    text,               \* the response body scrape_garden_stock parsed (<<>>: none kept)
    rpc,                \* "idle" | "fetch" | "sleep" | "returned"
    ret,                \* the returned pair (stock, error)
    \* ---- shared bot state
    subscriptions,      \* bot.subscriptions : uid -> list of item names
    known_items,        \* bot.known_items
    last_snapshot,      \* bot.last_snapshot : category -> item list
    autoscrape_enabled, \* bot.autoscrape_enabled
    closed,             \* bot.is_closed()
    cancelled,          \* bot.poll_task has been cancelled
    owner_id,           \* OWNER_ID from the environment ("" when not set)
    \* ---- polling_loop
    pc_loop,            \* where the loop task is suspended
    loop_before,        \* bot.last_snapshot as build_embed found it (this cycle)
    loop_embed,         \* the embed built this cycle (NoEmbed before)
    loop_digest,        \* the mention lines built this cycle
    loop_error,         \* polling_loop's local error
    loop_sent,          \* log of the messages the loop sent this cycle
    \* ---- manual_scrape
    pc_man,
    man_before,
    man_embed,
    man_digest,
    man_error,          \* manual_scrape's local error
    man_sent,           \* log of the messages the command sent to the channel
    man_reply,          \* log of the messages the command sent to its caller
    \* ---- subscribe / unsubscribe
    pc_cmd,             \* "idle" | "reply"
    cmd,                \* the latest command: [op, uid, items] and the known_items it met
    cmd_before,         \* the caller's list when that command started
    reply,              \* [chosen, removed, warn] of that command
    saved_subs          \* contents of subscriptions.json

clockVars == <<now, next_time, pc_clock>>
retryVars == <<max_attempts, attempts, error, delays, outcomes, rpc, ret, text>>
botVars   == <<subscriptions, known_items, last_snapshot, autoscrape_enabled, closed,
              cancelled, owner_id>>
loopVars  == <<pc_loop, loop_before, loop_embed, loop_digest, loop_error, loop_sent>>
manVars   == <<pc_man, man_before, man_embed, man_digest, man_error, man_sent, man_reply>>
cmdVars   == <<pc_cmd, cmd, cmd_before, reply, saved_subs>>
vars == <<clockVars, retryVars, botVars, loopVars, manVars, cmdVars>>

\* Python's None where a text is expected.
None == "None"

\* The pair (stock, error) that scrape_garden_stock and scrape_with_retries
\* return: (stock, None) is Ok(stock), (None, err) is Err(err).  A stock is
\* never None when ok: an empty dict is a stock.
Ok(stock) == [ok |-> TRUE, stock |-> stock, error |-> None]
Err(e) == [ok |-> FALSE, stock |-> <<>>, error |-> e]
NoRet == Err(None)

-----------------------------------------------------------------------------
(***************************************************************************)
(* Generic helpers.                                                        *)
(***************************************************************************)
Range(s) == {s[i] : i \in 1..Len(s)}

Min2(a, b) == IF a <= b THEN a ELSE b

\* Lexicographic order of two strings by code point (Python's str <).
RECURSIVE StrLess(_, _)
StrLess(s, t) ==
    IF Len(t) = 0 THEN FALSE
    ELSE IF Len(s) = 0 THEN TRUE
    ELSE IF Head(s) # Head(t) THEN Head(s) < Head(t)
    ELSE StrLess(Tail(s), Tail(t))

\* str.lower() on ASCII.
LowerChar(c) == IF c >= 65 /\ c <= 90 THEN c + 32 ELSE c
Lower(s) == [i \in 1..Len(s) |-> LowerChar(s[i])]

-----------------------------------------------------------------------------
(***************************************************************************)
(* calculate_next_scrape_time.  A datetime is [day, hour, minute, second]; *)
(* datetime.replace keeps every field it is not given, the day included.   *)
(***************************************************************************)
TargetMinute(current_minute) ==
    LET t0 == ((current_minute \div 5) * 5) + 1
    IN  IF t0 <= current_minute THEN t0 + 5 ELSE t0

calculate_next_scrape_time(t) ==
    LET target_minute == TargetMinute(t.minute)
    IN  IF target_minute >= 60
        THEN [day    |-> t.day,
              hour   |-> IF t.hour + 1 = 24 THEN 0 ELSE t.hour + 1,
              minute |-> target_minute - 60,
              second |-> 0]
        ELSE [day    |-> t.day,
              hour   |-> t.hour,
              minute |-> target_minute,
              second |-> 0]

\* Seconds since midnight of day 0: what subtracting two datetimes measures.
Seconds(t) == ((t.day * 24 + t.hour) * 60 + t.minute) * 60 + t.second

\* (next_time - now).total_seconds()
WaitSeconds(t) == Seconds(calculate_next_scrape_time(t)) - Seconds(t)

-----------------------------------------------------------------------------
(***************************************************************************)
(* difflib.get_close_matches(word, possibilities, n=1, cutoff=0.6), as     *)
(* subscribe calls it.  SequenceMatcher is built with seq1 = the           *)
(* possibility and seq2 = the word; no element is junk (no isjunk, and     *)
(* autojunk only acts on sequences of 200 elements or more).               *)
(***************************************************************************)
CutoffTenths == 6

\* Length of the common run of a[i..ahi] and b[j..bhi] starting at (i, j).
RECURSIVE RunLen(_, _, _, _, _, _)
RunLen(a, b, i, j, ahi, bhi) ==
    IF i > ahi \/ j > bhi THEN 0
    ELSE IF a[i] # b[j] THEN 0
    ELSE 1 + RunLen(a, b, i + 1, j + 1, ahi, bhi)

\* SequenceMatcher.find_longest_match: the longest block, of those the one
\* starting earliest in a, of those the one starting earliest in b.
\* <<i, j, size>>; size 0 when nothing matches.
LongestMatch(a, b, alo, ahi, blo, bhi) ==
    LET pairs == (alo..ahi) \X (blo..bhi)
        len(p) == RunLen(a, b, p[1], p[2], ahi, bhi)
        best  == CHOOSE k \in {len(p) : p \in pairs} :
                    \A p \in pairs : len(p) <= k
        hits  == {p \in pairs : len(p) = best}
        i0    == CHOOSE i \in {p[1] : p \in hits} :
                    \A p \in hits : i <= p[1]
        j0    == CHOOSE j \in {p[2] : p \in {q \in hits : q[1] = i0}} :
                    \A p \in {q \in hits : q[1] = i0} : j <= p[2]
    IN  <<i0, j0, best>>

\* Sum of the sizes of SequenceMatcher.get_matching_blocks(): the longest
\* match, then the same to its left and to its right.
RECURSIVE MatchCount(_, _, _, _, _, _)
MatchCount(a, b, alo, ahi, blo, bhi) ==
    IF alo > ahi \/ blo > bhi THEN 0
    ELSE LET m == LongestMatch(a, b, alo, ahi, blo, bhi)
         IN  IF m[3] = 0 THEN 0
             ELSE m[3]
                  + MatchCount(a, b, alo, m[1] - 1, blo, m[2] - 1)
                  + MatchCount(a, b, m[1] + m[3], ahi, m[2] + m[3], bhi)

\* _calculate_ratio(matches, length) as the fraction <<numerator, denominator>>.
CalculateRatio(matches, length) ==
    IF length > 0 THEN <<2 * matches, length>> ELSE <<1, 1>>

Ratio(a, b) == CalculateRatio(MatchCount(a, b, 1, Len(a), 1, Len(b)), Len(a) + Len(b))

\* quick_ratio: the multiset intersection of the two strings.
CountOf(s, c) == Cardinality({i \in 1..Len(s) : s[i] = c})

RECURSIVE SumMinCounts(_, _, _)
SumMinCounts(chars, a, b) ==
    IF chars = {} THEN 0
    ELSE LET c == CHOOSE x \in chars : TRUE
         IN  Min2(CountOf(a, c), CountOf(b, c)) + SumMinCounts(chars \ {c}, a, b)

QuickRatio(a, b) == CalculateRatio(SumMinCounts(Range(a), a, b), Len(a) + Len(b))

RealQuickRatio(a, b) == CalculateRatio(Min2(Len(a), Len(b)), Len(a) + Len(b))

\* r >= cutoff and r1 < r2 on fractions with positive denominators.
AtLeastCutoffStrict(r) == r[1] * 10 > CutoffTenths * r[2]

AtLeastCutoff(r) == r[1] * 10 >= CutoffTenths * r[2]

RatioLess(r1, r2) == r1[1] * r2[2] < r2[1] * r1[2]

\* The (score, x) pairs get_close_matches collects.
CloseCandidates(word, possibilities) ==
    {x \in possibilities :
        /\ AtLeastCutoff(RealQuickRatio(x, word))
        /\ AtLeastCutoff(QuickRatio(x, word))
        /\ AtLeastCutoff(Ratio(x, word))}

\* heapq.nlargest(1, result) is max(result): the greatest score, and of
\* equal scores the greatest string.  <<>> when nothing reaches the cutoff.
get_close_matches(word, possibilities) ==
    LET cands == CloseCandidates(word, possibilities)
        before(x, y) == \/ RatioLess(Ratio(x, word), Ratio(y, word))
                        \/ /\ ~RatioLess(Ratio(y, word), Ratio(x, word))
                           /\ StrLess(x, y)
    IN  IF cands = {} THEN <<>>
        ELSE <<CHOOSE x \in cands : \A y \in cands \ {x} : before(y, x)>>

-----------------------------------------------------------------------------
(***************************************************************************)
(* What scrape_garden_stock can return: Ok(stock) or Err(text).            *)
(* A stock is the parser's dict in insertion order: a sequence of          *)
(* <<category, items>> with distinct categories, items a non-empty         *)
(* sequence of <<name, quantity>> (a category gets a key only when an      *)
(* item is appended to it).                                                *)
(***************************************************************************)
FetchErrors ==
    {"Cloudflare 520 Error", "HTTP Error", "Request Timeout", "Network error", "Parse error"}

a_ == 97
b_ == 98
A_ == 65
B_ == 66
SP_ == 32

-----------------------------------------------------------------------------
(***************************************************************************)
(* Values the variables of a part hold while that part is not running.     *)
(***************************************************************************)
Midnight == [day |-> 0, hour |-> 0, minute |-> 0, second |-> 0]

NoTime == [day |-> 0 - 1, hour |-> 0, minute |-> 0, second |-> 0]

ClockIdle == now = Midnight /\ next_time = NoTime /\ pc_clock = "idle"

RetryIdle ==
    /\ max_attempts = 0 /\ attempts = 0 /\ error = None
    /\ delays = 0 /\ outcomes = <<>> /\ rpc = "idle" /\ ret = NoRet
    /\ text = <<>>

\* The shared state as the module sets it at import (lines 47-52).
BotIdle ==
    /\ subscriptions = <<>> /\ known_items = {} /\ last_snapshot = <<>>
    /\ autoscrape_enabled = TRUE /\ closed = FALSE /\ cancelled = FALSE
    /\ owner_id = ""

NoEmbed == [built |-> FALSE, fields |-> <<>>]

LoopIdle ==
    /\ loop_before = <<>> /\ loop_embed = NoEmbed /\ loop_digest = <<>>
    /\ loop_error = None /\ loop_sent = <<>>

ManIdle ==
    /\ pc_man = "idle" /\ man_before = <<>> /\ man_embed = NoEmbed
    /\ man_digest = <<>> /\ man_error = None /\ man_sent = <<>> /\ man_reply = <<>>

NoCmd == [op |-> "none", uid |-> "", items |-> <<>>, known |-> {}]

NoReply == [chosen |-> <<>>, removed |-> <<>>, warn |-> <<>>]

CmdIdle ==
    /\ pc_cmd = "idle" /\ cmd = NoCmd /\ cmd_before = <<>> /\ reply = NoReply

-----------------------------------------------------------------------------
(***************************************************************************)
(* calculate_next_scrape_time on its own: any wall-clock time in, the      *)
(* function applied once.                                                  *)
(***************************************************************************)
SampleSeconds == {0, 1, 30, 59}

Times ==
    [day : {0}, hour : 0..23, minute : 0..59, second : SampleSeconds]

ClockCall ==
    /\ pc_clock = "idle"
    /\ next_time' = calculate_next_scrape_time(now)
    /\ pc_clock' = "done"
    /\ UNCHANGED <<now, retryVars, botVars, loopVars, manVars, cmdVars>>

InitClock ==
    /\ now \in Times /\ next_time = NoTime /\ pc_clock = "idle"
    /\ RetryIdle
    /\ BotIdle
    /\ pc_loop = "unstarted" /\ LoopIdle
    /\ ManIdle
    /\ CmdIdle /\ saved_subs = <<>>

NextClock == ClockCall

SpecClock == InitClock /\ [][NextClock]_vars

\* The grid {:01, :06, ..., :56} at second 0.
OnGrid(t) == t.minute % 5 = 1 /\ t.second = 0

\* Every grid timestamp of the day of t and of the day after.
GridTimes(t) ==
    {g \in [day : {t.day, t.day + 1}, hour : 0..23, minute : 0..59, second : {0}] :
        OnGrid(g)}

\* C1: for every wall-clock time T, calculate_next_scrape_time(T) is on the
\* grid {:01,:06,...,:56} at second 0, is strictly after T, is the earliest
\* grid timestamp after T, and for T in 23:56..23:59 is 00:01 of the next day.
C1_NextAlignedAfterNow ==
    pc_clock = "done" =>
        /\ OnGrid(next_time)
        /\ Seconds(next_time) > Seconds(now)
        /\ \A g \in GridTimes(now) :
               Seconds(g) > Seconds(now) => Seconds(next_time) <= Seconds(g)
        /\ (now.hour = 23 /\ now.minute >= 56) =>
               next_time = [day |-> now.day + 1, hour |-> 0, minute |-> 1, second |-> 0]

\* What does hold: the result is the earliest grid timestamp after T unless
\* T is in the last four minutes of the day.
C1_HoldsBeforeLastMinutes ==
    (pc_clock = "done" /\ ~(now.hour = 23 /\ now.minute >= 56)) =>
        /\ OnGrid(next_time)
        /\ Seconds(next_time) > Seconds(now)
        /\ \A g \in GridTimes(now) :
               Seconds(g) > Seconds(now) => Seconds(next_time) <= Seconds(g)

-----------------------------------------------------------------------------
(***************************************************************************)
(* scrape_with_retries.  RetryEnter is the while test followed by the      *)
(* start of an attempt; RetryAfter is what follows the await of            *)
(* scrape_garden_stock.  Both return the new locals and where the call     *)
(* is: "fetch" (awaiting scrape_garden_stock), "sleep" (awaiting           *)
(* asyncio.sleep(delay)) or "returned" with the pair in ret.               *)
(***************************************************************************)
DefaultMaxAttempts == 3

RetryEnter(att, max, err) ==
    IF att < max
    THEN [attempts |-> att + 1, error |-> err, rpc |-> "fetch", ret |-> NoRet, slept |-> 0]
    ELSE [attempts |-> att, error |-> err, rpc |-> "returned",
          ret |-> Err(err), slept |-> 0]

\* A retry loop that sleeps after the last failed attempt too.
RetryAfterSleepsAlways(att, max, err, res) ==
    IF res.ok
    THEN [attempts |-> att, error |-> err, rpc |-> "returned",
          ret |-> Ok(res.stock), slept |-> 0]
    ELSE [attempts |-> att, error |-> res.error, rpc |-> "sleep", ret |-> NoRet, slept |-> 1]

RetryAfter(att, max, err, res) ==
    IF res.ok
    THEN [attempts |-> att, error |-> err, rpc |-> "returned",
          ret |-> Ok(res.stock), slept |-> 0]
    ELSE IF att < max
         THEN [attempts |-> att, error |-> res.error, rpc |-> "sleep",
               ret |-> NoRet, slept |-> 1]
         ELSE RetryEnter(att, max, res.error)


(***************************************************************************)
(* scrape_with_retries called on its own, with any max_attempts and a      *)
(* scrape_garden_stock that answers anything.                              *)
(***************************************************************************)
MaxAttemptsBound == 4

RetryStocks ==
    { << <<"SEEDS STOCK", << <<(<<a_>>), "5">> >> >> >>,
      << <<"COSMETICS STOCK", << <<(<<b_>>), "3">> >> >> >> }

RetryResults ==
    {Ok(st) : st \in RetryStocks} \cup {Err(e) : e \in FetchErrors}

\* The call: attempts = 0, error = None, then the while test.
RetryCall(m) ==
    /\ rpc = "idle"
    /\ LET r == RetryEnter(0, m, None)
       IN  /\ max_attempts' = m
           /\ attempts' = r.attempts
           /\ error' = r.error
           /\ rpc' = r.rpc
           /\ ret' = r.ret
    /\ delays' = 0
    /\ outcomes' = <<>>
    /\ UNCHANGED <<text, clockVars, botVars, loopVars, manVars, cmdVars>>

\* scrape_garden_stock answers res.
RetryFetchDone(res) ==
    /\ rpc = "fetch"
    /\ LET r == RetryAfter(attempts, max_attempts, error, res)
       IN  /\ attempts' = r.attempts
           /\ error' = r.error
           /\ rpc' = r.rpc
           /\ ret' = r.ret
           /\ delays' = delays + r.slept
    /\ outcomes' = Append(outcomes, res)
    /\ UNCHANGED <<max_attempts, text, clockVars, botVars, loopVars, manVars, cmdVars>>

\* asyncio.sleep(delay) is over: back to the while test.
RetrySleepDone ==
    /\ rpc = "sleep"
    /\ LET r == RetryEnter(attempts, max_attempts, error)
       IN  /\ attempts' = r.attempts
           /\ error' = r.error
           /\ rpc' = r.rpc
           /\ ret' = r.ret
    /\ UNCHANGED <<max_attempts, delays, outcomes, text, clockVars, botVars, loopVars,
                   manVars, cmdVars>>

\* The caller has taken the result; the next call can start.
RetryTaken ==
    /\ rpc = "returned"
    /\ max_attempts' = 0 /\ attempts' = 0 /\ error' = None
    /\ delays' = 0 /\ outcomes' = <<>> /\ rpc' = "idle" /\ ret' = NoRet
    /\ text' = <<>>
    /\ UNCHANGED <<clockVars, botVars, loopVars, manVars, cmdVars>>

InitRetry ==
    /\ ClockIdle
    /\ RetryIdle
    /\ BotIdle
    /\ pc_loop = "unstarted" /\ LoopIdle
    /\ ManIdle
    /\ CmdIdle /\ saved_subs = <<>>

NextRetry ==
    \/ \E m \in 1..MaxAttemptsBound : RetryCall(m)
    \/ \E res \in RetryResults : RetryFetchDone(res)
    \/ RetrySleepDone
    \/ RetryTaken

SpecRetry == InitRetry /\ [][NextRetry]_vars

Failed(res) == ~res.ok

\* C2: a call that sees k failures and then a success (k < max_attempts)
\* returns that success after exactly k+1 attempts and k delays; a call whose
\* every attempt fails returns after exactly max_attempts attempts and
\* max_attempts - 1 delays with the error of the last attempt.
C2_RetryCounts ==
    rpc = "returned" =>
        LET n == Len(outcomes)
            k == Cardinality({i \in 1..n : Failed(outcomes[i])})
        IN  /\ n >= 1
            /\ \A i \in 1..(n - 1) : Failed(outcomes[i])
            /\ ~Failed(outcomes[n]) =>
                   /\ k < max_attempts
                   /\ n = k + 1
                   /\ delays = k
                   /\ ret = Ok(outcomes[n].stock)
            /\ Failed(outcomes[n]) =>
                   /\ n = max_attempts
                   /\ delays = max_attempts - 1
                   /\ ret = Err(outcomes[n].error)

\* A call that failed twice and then succeeded, and one that failed throughout.
C2_Witness ==
    /\ rpc = "returned"
    /\ max_attempts = 3
    /\ Len(outcomes) = 3
    /\ Failed(outcomes[1]) /\ Failed(outcomes[2]) /\ ~Failed(outcomes[3])
    /\ delays = 2


-----------------------------------------------------------------------------
(***************************************************************************)
(* Python dicts keep insertion order: a dict is a sequence of              *)
(* <<key, value>> with distinct keys.                                      *)
(***************************************************************************)
Keys(d) == {d[i][1] : i \in 1..Len(d)}

HasKey(d, k) == \E i \in 1..Len(d) : d[i][1] = k

\* d.get(k, default)
DictGet(d, k, default) ==
    IF HasKey(d, k) THEN d[CHOOSE i \in 1..Len(d) : d[i][1] = k][2] ELSE default

\* d[k] = v
DictSet(d, k, v) ==
    IF HasKey(d, k)
    THEN [i \in 1..Len(d) |-> IF d[i][1] = k THEN <<k, v>> ELSE d[i]]
    ELSE Append(d, <<k, v>>)

\* subscriptions.json as save_subs writes it: one JSON object, a member per
\* user in the order of the dict, its value the array of the user's items.
SaveSubsNothing(subs) == <<>>

save_subs(subs) ==
    [i \in 1..Len(subs) |-> [key |-> subs[i][1], value |-> subs[i][2]]]

\* The dict load_subs makes of the file.
load_subs(file) ==
    [i \in 1..Len(file) |-> <<file[i].key, file[i].value>>]

\* bot.last_snapshot is only read and written by key (lines 222 and 229), so
\* it is a function from the categories it holds to their item lists.
\* bot.last_snapshot.get(cat, [])
SnapshotGet(last, cat) == IF cat \in DOMAIN last THEN last[cat] ELSE <<>>

\* bot.last_snapshot[cat] = items
SnapshotSet(last, cat, items) ==
    [c \in DOMAIN last \cup {cat} |-> IF c = cat THEN items ELSE last[c]]

-----------------------------------------------------------------------------
(***************************************************************************)
(* build_embed(stock, now): the embed's fields, the mentions, and          *)
(* bot.last_snapshot updated category by category.  mentions is a          *)
(* defaultdict(list): a sequence of <<item name, users>>.  The timestamp   *)
(* and footer of the embed are left out.                                   *)
(***************************************************************************)
AlwaysNotifyWithoutSeeds == {"GEAR STOCK", "EGGS STOCK"}

AlwaysNotify == {"GEAR STOCK", "SEEDS STOCK", "EGGS STOCK"}

\* f"<@{uid}>"
Mention(uid) == <<"<@", uid, ">">>

\* name.lower() in (i.lower() for i in user_items)
UserWants(name, user_items) ==
    \E i \in 1..Len(user_items) : Lower(user_items[i]) = Lower(name)

\* mentions[name].append(user)
MentionsAppend(mentions, name, user) ==
    DictSet(mentions, name, Append(DictGet(mentions, name, <<>>), user))

\* for uid, user_items in bot.subscriptions.items(): ... (from subscriber i on)
RECURSIVE ItemMentions(_, _, _, _)
ItemMentions(name, subs, i, mentions) ==
    IF i > Len(subs) THEN mentions
    ELSE ItemMentions(name, subs, i + 1,
            IF UserWants(name, subs[i][2])
            THEN MentionsAppend(mentions, name, Mention(subs[i][1]))
            ELSE mentions)

\* for name, _ in items: ... (from item i on)
RECURSIVE CategoryMentions(_, _, _, _)
CategoryMentions(items, subs, i, mentions) ==
    IF i > Len(items) THEN mentions
    ELSE CategoryMentions(items, subs, i + 1,
            ItemMentions(items[i][1], subs, 1, mentions))

\* A differ that compares the item names only.
ChangedByNamesOnly(cat, prev, items) ==
    \/ cat \in AlwaysNotify
    \/ [i \in 1..Len(prev) |-> prev[i][1]] # [i \in 1..Len(items) |-> items[i][1]]

\* cat in ("GEAR STOCK", "SEEDS STOCK", "EGGS STOCK") or prev != items
Changed(cat, prev, items) == cat \in AlwaysNotify \/ prev # items

\* embed.add_field(name=cat, value=desc): desc is the item lines or "No items".
Field(cat, items) ==
    [name |-> cat, lines |-> items, no_items |-> items = <<>>]

\* for cat, items in stock.items(): ... (from category i on)
RECURSIVE BuildFrom(_, _, _, _)
BuildFrom(stock, subs, i, acc) ==
    IF i > Len(stock) THEN acc
    ELSE LET cat   == stock[i][1]
             items == stock[i][2]
             prev  == SnapshotGet(acc.last_snapshot, cat)
         IN  BuildFrom(stock, subs, i + 1,
                [embed |-> [built |-> TRUE,
                            fields |-> Append(acc.embed.fields, Field(cat, items))],
                 mentions |-> IF Changed(cat, prev, items)
                              THEN CategoryMentions(items, subs, 1, acc.mentions)
                              ELSE acc.mentions,
                 last_snapshot |-> SnapshotSet(acc.last_snapshot, cat, items)])

build_embed(stock, last, subs) ==
    BuildFrom(stock, subs, 1,
        [embed |-> [built |-> TRUE, fields |-> <<>>],
         mentions |-> <<>>,
         last_snapshot |-> last])

\* known_items left as the empty set.
ItemNamesOfNothing(stock) == {}

\* {n for items in stock.values() for n, _ in items}
ItemNames(stock) ==
    UNION {{stock[i][2][j][1] : j \in 1..Len(stock[i][2])} : i \in 1..Len(stock)}

\* No alert line for anybody.
AlertMessagesNone(mentions) == <<>>

\* alert_messages: one "item: users" line for every key of mentions with users.
RECURSIVE AlertMessages(_)
AlertMessages(mentions) ==
    IF mentions = <<>> THEN <<>>
    ELSE LET line == [item |-> Head(mentions)[1], users |-> Head(mentions)[2]]
         IN  IF Head(mentions)[2] # <<>>
             THEN <<line>> \o AlertMessages(Tail(mentions))
             ELSE AlertMessages(Tail(mentions))

(***************************************************************************)
(* Messages, as the channel or the caller receives them.                   *)
(***************************************************************************)
Msg(kind, lines, fields, tag, err) ==
    [kind |-> kind, lines |-> lines, fields |-> fields, tag |-> tag, error |-> err]

NoTag == <<>>

DigestMsg(lines) == Msg("digest", lines, <<>>, NoTag, None)

EmbedMsg(embed) == Msg("embed", <<>>, embed.fields, NoTag, None)

\* owner_mention = f"<@{OWNER_ID}>" if OWNER_ID else "@jaymaca"
OwnerMention(owner) == IF owner # "" THEN Mention(owner) ELSE <<"@jaymaca">>

CriticalMsg(owner, err) == Msg("critical", <<>>, <<>>, OwnerMention(owner), err)

ManualFailedMsg(err) == Msg("manual_failed", <<>>, <<>>, NoTag, err)

TextReply(what, err) == Msg(what, <<>>, <<>>, NoTag, err)

\* What the logs keep of a delivered message: its kind, whom it tags and the
\* error it reports.
Logged(msg) == [kind |-> msg.kind, tag |-> msg.tag, error |-> msg.error]


-----------------------------------------------------------------------------
(***************************************************************************)
(* polling_loop.  pc_loop is the await the task is suspended in:           *)
(*   "wait_ready"       bot.wait_until_ready()                  line 237   *)
(*   "top"              an await of the previous cycle has just finished   *)
(*                      and the while test is next              line 240   *)
(*   "sleep_disabled"   asyncio.sleep(10), autoscrape off       line 244   *)
(*   "sleep_wait"       asyncio.sleep(wait_seconds)             line 255   *)
(*   "scrape"           scrape_with_retries(): rpc says where   line 259   *)
(*   "sleep_nochannel"  asyncio.sleep(60)                       line 263   *)
(*   "send_critical"    channel.send(msg)                       line 270   *)
(*   "send_digest"      channel.send(alert lines)               line 284   *)
(*   "send_embed"       channel.send(embed=embed)               line 287   *)
(*   "cooldown"         asyncio.sleep(10) of except Exception   line 292   *)
(*   "done"             the task has ended                                 *)
(* get_garden_channel() awaits nothing that suspends, so what follows the  *)
(* return of scrape_with_retries up to the first channel.send is one step. *)
(***************************************************************************)

\* Lines 260-287 up to the first send: where the loop goes and what it
\* leaves in the shared state.  channel is whether #growagarden was found.
CycleResultForgetsOnFailure(r, channel, last, known, subs) ==
    IF r.ok /\ channel
    THEN LET be == build_embed(r.stock, last, subs)
             lines == AlertMessages(be.mentions)
         IN  [pc |-> IF lines # <<>> THEN "send_digest" ELSE "send_embed",
              known_items |-> ItemNames(r.stock),
              last_snapshot |-> be.last_snapshot,
              embed |-> be.embed, digest |-> lines, error |-> r.error]
    ELSE [pc |-> IF channel THEN "send_critical" ELSE "sleep_nochannel",
          known_items |-> {}, last_snapshot |-> <<>>,
          embed |-> NoEmbed, digest |-> <<>>, error |-> r.error]

CycleResult(r, channel, last, known, subs) ==
    IF ~channel
    THEN [pc |-> "sleep_nochannel", known_items |-> known, last_snapshot |-> last,
          embed |-> NoEmbed, digest |-> <<>>, error |-> r.error]
    ELSE IF ~r.ok
    THEN [pc |-> "send_critical", known_items |-> known, last_snapshot |-> last,
          embed |-> NoEmbed, digest |-> <<>>, error |-> r.error]
    ELSE LET be == build_embed(r.stock, last, subs)
             lines == AlertMessages(be.mentions)
         IN  [pc |-> IF lines # <<>> THEN "send_digest" ELSE "send_embed",
              known_items |-> ItemNames(r.stock),
              last_snapshot |-> be.last_snapshot,
              embed |-> be.embed, digest |-> lines, error |-> r.error]

\* The locals of scrape_with_retries after the step r.
RetryLocals(r, slept, outs) ==
    /\ max_attempts' = DefaultMaxAttempts
    /\ attempts' = r.attempts
    /\ error' = r.error
    /\ rpc' = r.rpc
    /\ ret' = r.ret
    /\ delays' = slept
    /\ outcomes' = outs
    /\ text' = text

RetryGone ==
    /\ max_attempts' = 0 /\ attempts' = 0 /\ error' = None
    /\ delays' = 0 /\ outcomes' = <<>> /\ rpc' = "idle" /\ ret' = NoRet
    /\ text' = text

\* Nothing built or received yet in this cycle.
LoopCycleFresh ==
    /\ loop_before' = <<>> /\ loop_embed' = NoEmbed
    /\ loop_digest' = <<>> /\ loop_error' = None

\* scrape_with_retries has made the step r: it is still running, or it has
\* returned and the loop goes on to the first send or sleep of lines 260-287.
LoopAfterRetryStep(r, slept, outs, channel) ==
    IF r.rpc # "returned"
    THEN /\ RetryLocals(r, slept, outs)
         /\ pc_loop' = "scrape"
         /\ LoopCycleFresh
         /\ UNCHANGED <<known_items, last_snapshot>>
    ELSE LET c == CycleResult(r.ret, channel, last_snapshot, known_items, subscriptions)
         IN  /\ RetryGone
             /\ pc_loop' = c.pc
             /\ known_items' = c.known_items
             /\ last_snapshot' = c.last_snapshot
             /\ loop_before' = last_snapshot
             /\ loop_embed' = c.embed
             /\ loop_digest' = c.digest
             /\ loop_error' = c.error

\* on_ready has created the task and the bot is ready.
LoopReady ==
    /\ pc_loop = "wait_ready"
    /\ pc_loop' = "top"
    /\ UNCHANGED <<loop_before, loop_embed, loop_digest, loop_error, loop_sent,
                   clockVars, retryVars, botVars, manVars, cmdVars>>

\* Lines 240-259: the while test, the enable flag, the wait for the next
\* aligned time read off the clock t, up to the first await.
LoopTop(t, channel) ==
    /\ pc_loop = "top"
    /\ IF closed
       THEN /\ pc_loop' = "done"
            /\ UNCHANGED <<loop_before, loop_embed, loop_digest, loop_error, loop_sent,
                           retryVars, known_items, last_snapshot>>
       ELSE /\ loop_sent' = <<>>
            /\ IF ~autoscrape_enabled
               THEN /\ pc_loop' = "sleep_disabled"
                    /\ LoopCycleFresh
                    /\ UNCHANGED <<retryVars, known_items, last_snapshot>>
               ELSE IF WaitSeconds(t) > 0
               THEN /\ pc_loop' = "sleep_wait"
                    /\ LoopCycleFresh
                    /\ UNCHANGED <<retryVars, known_items, last_snapshot>>
               ELSE LoopAfterRetryStep(RetryEnter(0, DefaultMaxAttempts, None),
                                       0, <<>>, channel)
    /\ UNCHANGED <<subscriptions, autoscrape_enabled, closed, cancelled, owner_id,
                   clockVars, manVars, cmdVars>>

\* asyncio.sleep(wait_seconds) is over: scrape_with_retries() is called.
LoopWaitDone(channel) ==
    /\ pc_loop = "sleep_wait"
    /\ LoopAfterRetryStep(RetryEnter(0, DefaultMaxAttempts, None), 0, <<>>, channel)
    /\ UNCHANGED <<loop_sent, subscriptions, autoscrape_enabled, closed, cancelled,
                   owner_id, clockVars, manVars, cmdVars>>

\* scrape_garden_stock answers res inside scrape_with_retries.
LoopFetchDone(res, channel) ==
    /\ pc_loop = "scrape" /\ rpc = "fetch"
    /\ LET r == RetryAfter(attempts, max_attempts, error, res)
       IN  LoopAfterRetryStep(r, delays + r.slept, Append(outcomes, res), channel)
    /\ UNCHANGED <<loop_sent, subscriptions, autoscrape_enabled, closed, cancelled,
                   owner_id, clockVars, manVars, cmdVars>>

\* asyncio.sleep(delay) inside scrape_with_retries is over.
LoopRetrySleepDone(channel) ==
    /\ pc_loop = "scrape" /\ rpc = "sleep"
    /\ LoopAfterRetryStep(RetryEnter(attempts, max_attempts, error),
                          delays, outcomes, channel)
    /\ UNCHANGED <<loop_sent, subscriptions, autoscrape_enabled, closed, cancelled,
                   owner_id, clockVars, manVars, cmdVars>>

\* One of the sleeps that lead straight back to the while test is over.
LoopSleepDone ==
    /\ pc_loop \in {"sleep_disabled", "sleep_nochannel", "cooldown"}
    /\ pc_loop' = "top"
    /\ UNCHANGED <<loop_before, loop_embed, loop_digest, loop_error, loop_sent,
                   clockVars, retryVars, botVars, manVars, cmdVars>>

\* The message the loop is sending at pc.
LoopMessage(pc, owner, err, digest, embed) ==
    IF pc = "send_critical" THEN CriticalMsg(owner, err)
    ELSE IF pc = "send_digest" THEN DigestMsg(digest)
    ELSE EmbedMsg(embed)

\* channel.send(...) has delivered the message.  After the last send of the
\* cycle nothing reads the cycle's locals again.
LoopSent ==
    /\ pc_loop \in {"send_critical", "send_digest", "send_embed"}
    /\ loop_sent' = Append(loop_sent,
            Logged(LoopMessage(pc_loop, owner_id, loop_error, loop_digest, loop_embed)))
    /\ IF pc_loop = "send_digest"
       THEN /\ pc_loop' = "send_embed"
            /\ UNCHANGED <<loop_before, loop_embed, loop_digest, loop_error>>
       ELSE /\ pc_loop' = "top"
            /\ LoopCycleFresh
    /\ UNCHANGED <<clockVars, retryVars, botVars, manVars, cmdVars>>

\* channel.send(...) raised and nothing caught it: the task ends.
LoopSendRaisedEndsTask ==
    /\ pc_loop \in {"send_critical", "send_digest", "send_embed"}
    /\ pc_loop' = "done"
    /\ LoopCycleFresh
    /\ UNCHANGED <<loop_sent, clockVars, retryVars, botVars, manVars, cmdVars>>

\* channel.send(...) raised: except Exception logs it and sleeps 10 s.
\* (The sends are where the try of lines 241-287 can see an exception:
\* scrape_garden_stock catches its own at line 187.)
LoopSendRaised ==
    /\ pc_loop \in {"send_critical", "send_digest", "send_embed"}
    /\ pc_loop' = "cooldown"
    /\ LoopCycleFresh
    /\ UNCHANGED <<loop_sent, clockVars, retryVars, botVars, manVars, cmdVars>>

\* The task is cancelled: CancelledError is raised in the await it is in.
LoopCancel ==
    /\ pc_loop \notin {"unstarted", "done"}
    /\ cancelled' = TRUE
    /\ pc_loop' = "done"
    /\ RetryGone
    /\ UNCHANGED <<loop_before, loop_embed, loop_digest, loop_error, loop_sent,
                   subscriptions, known_items, last_snapshot, autoscrape_enabled,
                   closed, owner_id, clockVars, manVars, cmdVars>>

\* bot.close()
Close ==
    /\ ~closed
    /\ closed' = TRUE
    /\ UNCHANGED <<subscriptions, known_items, last_snapshot, autoscrape_enabled,
                   cancelled, owner_id, clockVars, retryVars, loopVars, manVars, cmdVars>>


-----------------------------------------------------------------------------
(***************************************************************************)
(* manual_scrape (!scrape and /scrape).  pc_man is the await the command   *)
(* is suspended in:                                                        *)
(*   "idle"             no command running                                 *)
(*   "defer"            ctx.defer() / ctx.trigger_typing()   lines 302-304 *)
(*   "reply_nochannel"  ctx.send("channel not found")        line 308      *)
(*   "fetch"            scrape_garden_stock()                line 311      *)
(*   "reply_failed"     ctx.send("Failed: ...")              line 314      *)
(*   "chan_failed"      channel.send("Manual scrape failed") line 315      *)
(*   "send_digest"      channel.send(alert lines)            line 327      *)
(*   "send_embed"       channel.send(embed=embed)            line 330      *)
(*   "reply_ok"         ctx.send("Update sent")              line 331      *)
(*   "error_reply"      on_command_error: ctx.send(error)    line 439      *)
(***************************************************************************)

\* Lines 313-330 up to the first send.
ManualResult(r, last, known, subs) ==
    IF ~r.ok
    THEN [pc |-> "reply_failed", known_items |-> known, last_snapshot |-> last,
          embed |-> NoEmbed, digest |-> <<>>, error |-> r.error]
    ELSE LET be == build_embed(r.stock, last, subs)
             lines == AlertMessages(be.mentions)
         IN  [pc |-> IF lines # <<>> THEN "send_digest" ELSE "send_embed",
              known_items |-> ItemNames(r.stock),
              last_snapshot |-> be.last_snapshot,
              embed |-> be.embed, digest |-> lines, error |-> r.error]

\* Nothing built or received by the command (yet, or any more).
ManFresh ==
    /\ man_before' = <<>> /\ man_embed' = NoEmbed
    /\ man_digest' = <<>> /\ man_error' = None

\* The command is invoked.
ManStart ==
    /\ pc_man = "idle"
    /\ pc_man' = "defer"
    /\ ManFresh
    /\ man_sent' = <<>> /\ man_reply' = <<>>
    /\ UNCHANGED <<clockVars, retryVars, botVars, loopVars, cmdVars>>

\* ctx.defer() / ctx.trigger_typing() is over; the channel is looked up.
ManDeferDone(channel) ==
    /\ pc_man = "defer"
    /\ pc_man' = IF channel THEN "fetch" ELSE "reply_nochannel"
    /\ UNCHANGED <<man_before, man_embed, man_digest, man_error, man_sent, man_reply,
                   clockVars, retryVars, botVars, loopVars, cmdVars>>

\* scrape_garden_stock answers res: the single attempt of a manual scrape.
ManFetchDone(res) ==
    /\ pc_man = "fetch"
    /\ LET c == ManualResult(res, last_snapshot, known_items, subscriptions)
       IN  /\ pc_man' = c.pc
           /\ known_items' = c.known_items
           /\ last_snapshot' = c.last_snapshot
           /\ man_before' = last_snapshot
           /\ man_embed' = c.embed
           /\ man_digest' = c.digest
           /\ man_error' = c.error
    /\ UNCHANGED <<man_sent, man_reply, subscriptions, autoscrape_enabled, closed,
                   cancelled, owner_id, clockVars, retryVars, loopVars, cmdVars>>

\* A message to the channel has been delivered.
ManChannelSent ==
    /\ pc_man \in {"chan_failed", "send_digest", "send_embed"}
    /\ man_sent' = Append(man_sent,
            Logged(IF pc_man = "chan_failed" THEN ManualFailedMsg(man_error)
                   ELSE IF pc_man = "send_digest" THEN DigestMsg(man_digest)
                   ELSE EmbedMsg(man_embed)))
    /\ IF pc_man = "send_digest"
       THEN /\ pc_man' = "send_embed"
            /\ UNCHANGED <<man_before, man_embed, man_digest, man_error>>
       ELSE /\ pc_man' = IF pc_man = "chan_failed" THEN "idle" ELSE "reply_ok"
            /\ ManFresh
    /\ UNCHANGED <<man_reply, clockVars, retryVars, botVars, loopVars, cmdVars>>

\* A reply to the caller has been delivered, and a failure goes to the
\* caller alone.
ManReplySentToCallerOnly ==
    /\ pc_man \in {"reply_nochannel", "reply_failed", "reply_ok", "error_reply"}
    /\ man_reply' = Append(man_reply,
            Logged(IF pc_man = "reply_failed" THEN TextReply("failed", man_error)
                   ELSE TextReply(pc_man, None)))
    /\ pc_man' = "idle"
    /\ UNCHANGED <<man_before, man_embed, man_digest, man_error, man_sent,
                   clockVars, retryVars, botVars, loopVars, cmdVars>>

\* A reply to the caller has been delivered.
ManReplySent ==
    /\ pc_man \in {"reply_nochannel", "reply_failed", "reply_ok", "error_reply"}
    /\ man_reply' = Append(man_reply,
            Logged(IF pc_man = "reply_failed" THEN TextReply("failed", man_error)
                   ELSE TextReply(pc_man, None)))
    /\ pc_man' = IF pc_man = "reply_failed" THEN "chan_failed" ELSE "idle"
    /\ UNCHANGED <<man_before, man_embed, man_digest, man_error, man_sent,
                   clockVars, retryVars, botVars, loopVars, cmdVars>>

\* An await of the command raised: on_command_error answers the caller.
ManRaised ==
    /\ pc_man \in {"defer", "reply_nochannel", "reply_failed", "chan_failed",
                   "send_digest", "send_embed", "reply_ok"}
    /\ pc_man' = "error_reply"
    /\ ManFresh
    /\ UNCHANGED <<man_sent, man_reply, clockVars, retryVars, botVars, loopVars, cmdVars>>

-----------------------------------------------------------------------------
(***************************************************************************)
(* autoscrape(enable): admin only.                                         *)
(***************************************************************************)
Autoscrape(enable, admin) ==
    /\ autoscrape_enabled' = IF admin THEN enable ELSE autoscrape_enabled
    /\ UNCHANGED <<subscriptions, known_items, last_snapshot, closed, cancelled,
                   owner_id, clockVars, retryVars, loopVars, manVars, cmdVars>>


-----------------------------------------------------------------------------
(***************************************************************************)
(* Spec: the polling loop and the manual scrape command, running           *)
(* concurrently over stocks that differ from one another in every way the  *)
(* differ distinguishes, with the subscriptions on_ready loaded.           *)
(***************************************************************************)
Item(name, qty) == <<name, qty>>

\* Item lists of the always-notify category SEEDS STOCK.
SeedLists ==
    { <<Item(<<A_>>, "5")>> }

\* Item lists of COSMETICS STOCK: a list, then the same with an item added,
\* with another quantity, and reordered.
CosmeticsLists ==
    { <<Item(<<a_>>, "5")>>,
      <<Item(<<a_>>, "5"), Item(<<b_>>, "5")>>,
      <<Item(<<a_>>, "3"), Item(<<b_>>, "5")>>,
      <<Item(<<b_>>, "5"), Item(<<a_>>, "5")>> }

\* The parser handles SEEDS STOCK first, so its key comes first.
StockOf(seeds, cosmetics) ==
    (IF seeds = <<>> THEN <<>> ELSE << <<"SEEDS STOCK", seeds>> >>)
    \o (IF cosmetics = <<>> THEN <<>> ELSE << <<"COSMETICS STOCK", cosmetics>> >>)

Stocks ==
    {StockOf(s, c) : s \in SeedLists \cup {<<>>}, c \in CosmeticsLists \cup {<<>>}}

Results == {Ok(st) : st \in Stocks} \cup {Err("Request Timeout")}

\* What on_ready loads from subscriptions.json.
LoadedSubscriptions ==
    { << <<"u1", << <<A_>> >> >>, <<"u2", << <<a_>>, <<b_>> >> >> >> }

\* Clock readings of the loop: before an aligned time, and in the last
\* minutes of the day.
LoopTimes ==
    { [day |-> 0, hour |-> 14, minute |-> 3, second |-> 0],
      [day |-> 0, hour |-> 23, minute |-> 57, second |-> 30] }

Init ==
    /\ ClockIdle
    /\ RetryIdle
    /\ subscriptions \in LoadedSubscriptions
    /\ known_items = {} /\ last_snapshot = <<>>
    /\ autoscrape_enabled = TRUE /\ closed = FALSE /\ cancelled = FALSE
    /\ owner_id = ""
    /\ pc_loop = "wait_ready" /\ LoopIdle
    /\ ManIdle
    /\ CmdIdle /\ saved_subs = save_subs(subscriptions)

LoopStep(results) ==
    \/ LoopReady
    \/ \E t \in LoopTimes, channel \in BOOLEAN : LoopTop(t, channel)
    \/ \E channel \in BOOLEAN : LoopWaitDone(channel)
    \/ \E res \in results, channel \in BOOLEAN : LoopFetchDone(res, channel)
    \/ \E channel \in BOOLEAN : LoopRetrySleepDone(channel)
    \/ LoopSleepDone
    \/ LoopSent
    \/ LoopSendRaised

ManStep(results) ==
    \/ ManStart
    \/ \E channel \in BOOLEAN : ManDeferDone(channel)
    \/ \E res \in results : ManFetchDone(res)
    \/ ManChannelSent
    \/ ManReplySent
    \/ ManRaised

Next == LoopStep(Results) \/ ManStep(Results)

Spec == Init /\ [][Next]_vars


-----------------------------------------------------------------------------
(***************************************************************************)
(* What a poll cycle shows right after build_embed: the last_snapshot it   *)
(* found, the stock it processed (the embed's fields) and the mention      *)
(* lines it is about to send.  Poll 1 is the polling loop, poll 2 the      *)
(* manual scrape.                                                          *)
(***************************************************************************)
Polls == {1, 2}

Processed(p) ==
    IF p = 1 THEN pc_loop \in {"send_digest", "send_embed"}
    ELSE pc_man \in {"send_digest", "send_embed"}

BeforeOf(p) == IF p = 1 THEN loop_before ELSE man_before

FieldsOf(p) == IF p = 1 THEN loop_embed.fields ELSE man_embed.fields

DigestOf(p) == IF p = 1 THEN loop_digest ELSE man_digest

DigestPending(p) == IF p = 1 THEN pc_loop = "send_digest" ELSE pc_man = "send_digest"

SentOf(p) == IF p = 1 THEN loop_sent ELSE man_sent

RECURSIVE SumOver(_, _)
SumOver(S, f) ==
    IF S = {} THEN 0
    ELSE LET x == CHOOSE y \in S : TRUE IN f[x] + SumOver(S \ {x}, f)

\* How many entries of the item list carry the name.
Occurrences(items, name) == Cardinality({j \in 1..Len(items) : items[j][1] = name})

\* How many times the digest mentions the user on the line of the item.
TimesMentioned(digest, name, uid) ==
    SumOver({i \in 1..Len(digest) : digest[i].item = name},
            [i \in 1..Len(digest) |->
                Cardinality({j \in 1..Len(digest[i].users) :
                                digest[i].users[j] = Mention(uid)})])

\* The user's list holds the name under case-insensitive comparison.
Subscribed(uid, name) ==
    \E i \in 1..Len(subscriptions) :
        /\ subscriptions[i][1] = uid
        /\ \E j \in 1..Len(subscriptions[i][2]) :
               Lower(subscriptions[i][2][j]) = Lower(name)

Subscribers == {subscriptions[i][1] : i \in 1..Len(subscriptions)}

NamesIn(fields) ==
    UNION {{fields[i].lines[j][1] : j \in 1..Len(fields[i].lines)} : i \in 1..Len(fields)}

AlwaysNotifyLabels == {"GEAR STOCK", "SEEDS STOCK", "EGGS STOCK"}

\* The category of field i is not always-notify and its list is the one
\* last_snapshot held for it / differs from it (or none was held).
SameAsBefore(p, i) ==
    LET f == FieldsOf(p)[i]
    IN  /\ f.name \notin AlwaysNotifyLabels
        /\ f.name \in DOMAIN BeforeOf(p)
        /\ BeforeOf(p)[f.name] = f.lines

DiffersFromBefore(p, i) ==
    LET f == FieldsOf(p)[i]
    IN  /\ f.name \notin AlwaysNotifyLabels
        /\ (f.name \in DOMAIN BeforeOf(p) => BeforeOf(p)[f.name] # f.lines)

\* C3: a category outside GEAR/SEEDS/EGGS STOCK whose item list equals the
\* list last_snapshot held for it adds no mention of any subscriber; one
\* whose list differs has every one of its items matched against every
\* subscriber's list.  Counted per item name and user: the mentions are no
\* more than the occurrences of the name in the categories that are not
\* unchanged, and no fewer than its occurrences in the changed ones.
C3_DiffPolicy ==
    \A p \in Polls :
        Processed(p) =>
            \A name \in NamesIn(FieldsOf(p)), uid \in Subscribers :
                LET f == FieldsOf(p)
                    occ == [i \in 1..Len(f) |-> Occurrences(f[i].lines, name)]
                    n == TimesMentioned(DigestOf(p), name, uid)
                IN  IF Subscribed(uid, name)
                    THEN /\ n <= SumOver({i \in 1..Len(f) : ~SameAsBefore(p, i)}, occ)
                         /\ n >= SumOver({i \in 1..Len(f) : DiffersFromBefore(p, i)}, occ)
                    ELSE n = 0

\* A poll found a category outside the always-notify set unchanged, with a
\* subscriber of one of its items, and its digest mentions nobody.
C3_Witness ==
    \E p \in Polls :
        /\ Processed(p)
        /\ \E i \in 1..Len(FieldsOf(p)) :
               /\ SameAsBefore(p, i)
               /\ \E j \in 1..Len(FieldsOf(p)[i].lines), uid \in Subscribers :
                      Subscribed(uid, FieldsOf(p)[i].lines[j][1])
        /\ DigestOf(p) = <<>>

\* C4: in every successful poll cycle, autonomous or manual, every user
\* subscribed (case-insensitively) to an item of GEAR, SEEDS or EGGS STOCK is
\* mentioned on that item's line of the digest, and the digest is sent
\* before the embed.
C4_AlwaysNotifyMentions ==
    \A p \in Polls :
        Processed(p) =>
            /\ \A i \in 1..Len(FieldsOf(p)) :
                   FieldsOf(p)[i].name \in AlwaysNotifyLabels =>
                       \A j \in 1..Len(FieldsOf(p)[i].lines), uid \in Subscribers :
                           LET name == FieldsOf(p)[i].lines[j][1]
                           IN  Subscribed(uid, name) =>
                                   TimesMentioned(DigestOf(p), name, uid) >= 1
            /\ (DigestOf(p) # <<>> /\ ~DigestPending(p)) =>
                   \E k \in 1..Len(SentOf(p)) : SentOf(p)[k].kind = "digest"

\* A poll whose SEEDS STOCK list is the one the previous snapshot had, and
\* whose digest (already sent) mentions both subscribers of its item.
C4_Witness ==
    \E p \in Polls :
        /\ Processed(p) /\ ~DigestPending(p)
        /\ "SEEDS STOCK" \in DOMAIN BeforeOf(p)
        /\ \E i \in 1..Len(FieldsOf(p)) :
               /\ FieldsOf(p)[i].name = "SEEDS STOCK"
               /\ FieldsOf(p)[i].lines = BeforeOf(p)["SEEDS STOCK"]
               /\ TimesMentioned(DigestOf(p), FieldsOf(p)[i].lines[1][1], "u1") = 1
               /\ TimesMentioned(DigestOf(p), FieldsOf(p)[i].lines[1][1], "u2") = 1

-----------------------------------------------------------------------------
(***************************************************************************)
(* subscribe and unsubscribe.  The command's text is a string of character *)
(* codes; split(",") and strip() are computed on it.  Each handler runs    *)
(* from its first line to its only await, the final ctx.send, as one step: *)
(* reply is the message handed to ctx.send and pc_cmd = "reply" from then  *)
(* on; cmd, cmd_before and reply keep describing the latest command.       *)
(***************************************************************************)
COMMA_ == 44

\* items.split(","): at least one piece, the pieces between the commas.
RECURSIVE Split(_)
Split(s) ==
    IF \A i \in 1..Len(s) : s[i] # COMMA_ THEN <<s>>
    ELSE LET k == CHOOSE i \in 1..Len(s) :
                      s[i] = COMMA_ /\ \A j \in 1..(i - 1) : s[j] # COMMA_
         IN  <<SubSeq(s, 1, k - 1)>> \o Split(SubSeq(s, k + 1, Len(s)))

\* raw.strip(): without the leading and trailing blanks.
Strip(s) ==
    LET inked == {i \in 1..Len(s) : s[i] # SP_}
    IN  IF inked = {} THEN <<>>
        ELSE LET lo == CHOOSE i \in inked : \A j \in inked : i <= j
                 hi == CHOOSE i \in inked : \A j \in inked : j <= i
             IN  SubSeq(s, lo, hi)

NoCloseMatch(raw) == [kind |-> "no_close_match", item |-> raw]

AlreadySubscribed(want) == [kind |-> "already", item |-> want]

NotSubscribed(want) == [kind |-> "not_subscribed", item |-> want]

\* any(i.lower() == want.lower() for i in subs)
HasIgnoringCase(subs, want) == \E i \in 1..Len(subs) : Lower(subs[i]) = Lower(want)

\* The same test on exact strings.
HasExactly(subs, want) == \E i \in 1..Len(subs) : subs[i] = want

\* Lines 367-372: the want-string after fuzzy resolution and whether the
\* "no close match" warning is added, given the match list of line 368.
\* Nothing of it runs while known_items is empty.
Resolved(want, known, match) ==
    IF known = {} THEN [want |-> want, warned |-> FALSE]
    ELSE IF match # <<>> THEN [want |-> match[1], warned |-> FALSE]
    ELSE [want |-> want, warned |-> TRUE]

Resolve(want, known) == Resolved(want, known, get_close_matches(want, known))

\* warn.append(f"No close match for **{raw}**, added as-is.") when r says so
Warned(warn, raw, r) == IF r.warned THEN Append(warn, NoCloseMatch(raw)) ELSE warn

\* Lines 373-377 for the resolved want-string r.want.
AddAlways(acc, raw, r) ==
    [subs |-> Append(acc.subs, r.want),
     chosen |-> Append(acc.chosen, r.want),
     warn |-> Warned(acc.warn, raw, r)]

AddUnlessExactlyPresent(acc, raw, r) ==
    IF HasExactly(acc.subs, r.want)
    THEN [acc EXCEPT !.warn = Append(Warned(acc.warn, raw, r), AlreadySubscribed(r.want))]
    ELSE AddAlways(acc, raw, r)

AddUnlessPresent(acc, raw, r) ==
    IF HasIgnoringCase(acc.subs, r.want)
    THEN [acc EXCEPT !.warn = Append(Warned(acc.warn, raw, r), AlreadySubscribed(r.want))]
    ELSE [subs |-> Append(acc.subs, r.want),
          chosen |-> Append(acc.chosen, r.want),
          warn |-> Warned(acc.warn, raw, r)]

\* One turn of the for loop of subscribe, lines 363-377.
SubscribePiece(acc, raw, known) ==
    IF Strip(raw) = <<>> THEN acc
    ELSE AddUnlessPresent(acc, raw, Resolve(Strip(raw), known))

RECURSIVE SubscribeLoop(_, _, _, _)
SubscribeLoop(acc, pieces, i, known) ==
    IF i > Len(pieces) THEN acc
    ELSE SubscribeLoop(SubscribePiece(acc, pieces[i], known), pieces, i + 1, known)

\* subscribe, lines 358-384.
Subscribe(uid, items) ==
    LET table == IF HasKey(subscriptions, uid) THEN subscriptions
                 ELSE Append(subscriptions, <<uid, <<>>>>)
        start == [subs |-> DictGet(table, uid, <<>>), chosen |-> <<>>, warn |-> <<>>]
        end == SubscribeLoop(start, Split(items), 1, known_items)
    IN  /\ subscriptions' = DictSet(table, uid, end.subs)
        /\ saved_subs' = save_subs(subscriptions')
        /\ cmd' = [op |-> "sub", uid |-> uid, items |-> items, known |-> known_items]
        /\ cmd_before' = DictGet(subscriptions, uid, <<>>)
        /\ reply' = [chosen |-> end.chosen, removed |-> <<>>, warn |-> end.warn]
        /\ pc_cmd' = "reply"
        /\ UNCHANGED <<known_items, last_snapshot, autoscrape_enabled, closed,
                       cancelled, owner_id, clockVars, retryVars, loopVars, manVars>>

\* subs.remove(ex) for the entry at position k.
RemoveAt(subs, k) == SubSeq(subs, 1, k - 1) \o SubSeq(subs, k + 1, Len(subs))

\* One turn of the for loop of unsubscribe, lines 393-401.
UnsubscribePiece(acc, raw) ==
    LET want == Strip(raw)
        hits == {i \in 1..Len(acc.subs) : Lower(acc.subs[i]) = Lower(want)}
    IN  IF hits = {}
        THEN [acc EXCEPT !.warn = Append(acc.warn, NotSubscribed(want))]
        ELSE LET k == CHOOSE i \in hits : \A j \in hits : i <= j
             IN  [subs |-> RemoveAt(acc.subs, k),
                  removed |-> Append(acc.removed, acc.subs[k]),
                  warn |-> acc.warn]

RECURSIVE UnsubscribeLoop(_, _, _)
UnsubscribeLoop(acc, pieces, i) ==
    IF i > Len(pieces) THEN acc
    ELSE UnsubscribeLoop(UnsubscribePiece(acc, pieces[i]), pieces, i + 1)

\* unsubscribe, lines 388-408.  A user without a key gets none.
Unsubscribe(uid, items) ==
    LET start == [subs |-> DictGet(subscriptions, uid, <<>>), removed |-> <<>>, warn |-> <<>>]
        end == UnsubscribeLoop(start, Split(items), 1)
    IN  /\ subscriptions' = IF HasKey(subscriptions, uid)
                            THEN DictSet(subscriptions, uid, end.subs)
                            ELSE subscriptions
        /\ saved_subs' = save_subs(subscriptions')
        /\ cmd' = [op |-> "unsub", uid |-> uid, items |-> items, known |-> known_items]
        /\ cmd_before' = DictGet(subscriptions, uid, <<>>)
        /\ reply' = [chosen |-> <<>>, removed |-> end.removed, warn |-> end.warn]
        /\ pc_cmd' = "reply"
        /\ UNCHANGED <<known_items, last_snapshot, autoscrape_enabled, closed,
                       cancelled, owner_id, clockVars, retryVars, loopVars, manVars>>

-----------------------------------------------------------------------------
(***************************************************************************)
(* SpecSub: subscribe and unsubscribe commands of two users, starting from *)
(* an empty table, interleaved with manual scrapes that replace            *)
(* known_items.                                                            *)
(***************************************************************************)
SubUsers == {"u1", "u2"}

\* The texts a user types: "a" and " a,,A " for u1, "A" for u2.
SubInputs(uid) ==
    IF uid = "u1"
    THEN {<<a_>>, <<SP_, a_, COMMA_, COMMA_, A_, SP_>>}
    ELSE {<<A_>>}

SubStocks ==
    {<<<<"SEEDS STOCK", <<Item(<<a_, b_>>, "5")>>>>>>,
     <<<<"SEEDS STOCK", <<Item(<<A_>>, "5")>>>>>>}

SubResults == {Ok(st) : st \in SubStocks}

InitSub ==
    /\ ClockIdle /\ RetryIdle /\ BotIdle
    /\ pc_loop = "wait_ready" /\ LoopIdle
    /\ ManIdle
    /\ CmdIdle /\ saved_subs = <<>>

NextSub ==
    \/ \E uid \in SubUsers : \E items \in SubInputs(uid) : Subscribe(uid, items)
    \/ \E uid \in SubUsers : \E items \in SubInputs(uid) : Unsubscribe(uid, items)
    \/ ManStep(SubResults)

SpecSub == InitSub /\ [][NextSub]_vars

\* The list the table holds for the user ([] without a key).
ListOf(uid) == DictGet(subscriptions, uid, <<>>)

\* C5: starting from an empty table, whatever subscribe and unsubscribe
\* commands and polls have run, no user's list holds two entries that are
\* equal when case is ignored.
C5_NoCaseDuplicates ==
    \A i \in 1..Len(subscriptions) :
        LET subs == subscriptions[i][2]
        IN  \A j, k \in 1..Len(subs) : Lower(subs[j]) = Lower(subs[k]) => j = k

\* A subscribe was refused for an entry the list holds in another case,
\* after a poll had filled known_items and with two entries in the list.
C5_Witness ==
    /\ pc_cmd = "reply" /\ cmd.op = "sub" /\ cmd.known # {}
    /\ Len(ListOf(cmd.uid)) >= 2
    /\ \E w \in 1..Len(reply.warn) :
           /\ reply.warn[w].kind = "already"
           /\ ~HasExactly(ListOf(cmd.uid), reply.warn[w].item)

-----------------------------------------------------------------------------
(***************************************************************************)
(* The latest subscribe command seen from outside: its                     *)
(* want-strings, the known items of best similarity to a want-string, and  *)
(* the string a want-string stands for once resolved.                      *)
(***************************************************************************)
Subscribing == pc_cmd = "reply" /\ cmd.op = "sub"

\* The stripped, non-empty pieces of the command's text, in order.
Wants(items) ==
    LET pieces == Split(items)
        F[i \in 0..Len(pieces)] ==
            IF i = 0 THEN <<>>
            ELSE IF Strip(pieces[i]) = <<>> THEN F[i - 1]
            ELSE Append(F[i - 1], Strip(pieces[i]))
    IN  F[Len(pieces)]

\* similarity >= 0.6
Similar(x, want) == 10 * Ratio(x, want)[1] >= 6 * Ratio(x, want)[2]

\* The known items of similarity >= 0.6 to the want-string that no known
\* item beats.
BestKnown(want, known) ==
    {x \in known :
        /\ Similar(x, want)
        /\ \A y \in known : ~RatioLess(Ratio(x, want), Ratio(y, want))}

\* What the want-string resolves to: the best-scoring known item (of equal
\* ones the greatest string), the want-string itself when there is none.
ResolvesTo(want, known) ==
    IF BestKnown(want, known) = {} THEN want
    ELSE CHOOSE x \in BestKnown(want, known) :
             \A y \in BestKnown(want, known) : y = x \/ StrLess(y, x)

Reports(kind, item) ==
    \E w \in 1..Len(reply.warn) : reply.warn[w] = [kind |-> kind, item |-> item]

\* C6 as stated: a subscribe whose input strings are all present in the
\* caller's list already, case ignored, leaves the list unchanged and
\* reports "already subscribed", whatever known_items holds.
C6_PresentInputIsNoOp ==
    (/\ Subscribing
     /\ Wants(cmd.items) # <<>>
     /\ \A i \in 1..Len(Wants(cmd.items)) : HasIgnoringCase(cmd_before, Wants(cmd.items)[i]))
        => /\ ListOf(cmd.uid) = cmd_before
           /\ reply.chosen = <<>>
           /\ \E w \in 1..Len(reply.warn) : reply.warn[w].kind = "already"

\* C6 amended: a subscribe all of whose input strings RESOLVE to strings
\* present in the caller's list already, case ignored, leaves the list
\* unchanged and reports "already subscribed" for each resolved string.
C6_PresentResolvedIsNoOp ==
    (/\ Subscribing
     /\ Wants(cmd.items) # <<>>
     /\ \A i \in 1..Len(Wants(cmd.items)) :
            HasIgnoringCase(cmd_before, ResolvesTo(Wants(cmd.items)[i], cmd.known)))
        => /\ ListOf(cmd.uid) = cmd_before
           /\ reply.chosen = <<>>
           /\ \A i \in 1..Len(Wants(cmd.items)) :
                  Reports("already", ResolvesTo(Wants(cmd.items)[i], cmd.known))

\* The caller typed a string that is not in the list, it resolved to a known
\* item that is, and the command left the list alone.
C6_Witness ==
    /\ Subscribing
    /\ Len(Wants(cmd.items)) = 1
    /\ ~HasIgnoringCase(cmd_before, Wants(cmd.items)[1])
    /\ HasIgnoringCase(cmd_before, ResolvesTo(Wants(cmd.items)[1], cmd.known))
    /\ ListOf(cmd.uid) = cmd_before
    /\ Reports("already", ResolvesTo(Wants(cmd.items)[1], cmd.known))

-----------------------------------------------------------------------------
(***************************************************************************)
(* SpecMatch: subscribe applied to want-strings and known items chosen for *)
(* their similarity: above, exactly at and below 0.6, two known items of   *)
(* equal score, no known items at all.  The bot starts after a successful  *)
(* scrape of one of MatchStocks (or none), with the table on_ready loaded. *)
(***************************************************************************)
\* "ab" | "ab", "ba" | "aaabb" | "AB"
MatchSeeds ==
    {<<Item(<<a_, b_>>, "5")>>,
     <<Item(<<a_, b_>>, "5"), Item(<<b_, a_>>, "5")>>,
     <<Item(<<a_, a_, a_, b_, b_>>, "5")>>,
     <<Item(<<A_, B_>>, "5")>>}

MatchStocks == {<<>>} \cup {<<<<"SEEDS STOCK", seeds>>>> : seeds \in MatchSeeds}

\* u1: [] | ["ab"] | ["AB", "b"]
MatchTables ==
    {<<>>, <<<<"u1", <<<<a_, b_>>>>>>>>, <<<<"u1", <<<<A_, B_>>, <<b_>>>>>>>>}

\* "a", " ab ", "b", "aaaAA"
MatchInputs ==
    {<<a_>>, <<SP_, a_, b_, SP_>>, <<b_>>, <<a_, a_, a_, A_, A_>>}

InitMatch ==
    /\ ClockIdle /\ RetryIdle
    /\ subscriptions \in MatchTables
    /\ \E st \in MatchStocks :
           /\ known_items = ItemNames(st)
           /\ last_snapshot = build_embed(st, <<>>, subscriptions).last_snapshot
    /\ autoscrape_enabled = TRUE /\ closed = FALSE /\ cancelled = FALSE
    /\ owner_id = ""
    /\ pc_loop = "wait_ready" /\ LoopIdle
    /\ ManIdle
    /\ CmdIdle /\ saved_subs = save_subs(subscriptions)

NextMatch == \E items \in MatchInputs : Subscribe("u1", items)

SpecMatch == InitMatch /\ [][NextMatch]_vars

\* The command's only want-string is in the list afterwards: appended to the
\* list, or the list left alone when it held the string already, case
\* ignored.
StoredAs(x) ==
    IF HasIgnoringCase(cmd_before, x) THEN ListOf(cmd.uid) = cmd_before
    ELSE ListOf(cmd.uid) = Append(cmd_before, x)

OneWant == Subscribing /\ Len(Split(cmd.items)) = 1 /\ Wants(cmd.items) # <<>>

\* C7 as stated: for any known_items, the empty set included: when a known
\* item has similarity >= 0.6 to the want-string, a best-scoring known item
\* is stored in place of the input; otherwise the literal input is stored
\* and the caller is told "no close match" for it.
C7_FuzzyStoreAnyKnown ==
    OneWant =>
        LET want == Wants(cmd.items)[1]
        IN  IF BestKnown(want, cmd.known) # {}
            THEN /\ \E x \in BestKnown(want, cmd.known) : StoredAs(x)
                 /\ ~Reports("no_close_match", cmd.items)
            ELSE /\ StoredAs(want)
                 /\ Reports("no_close_match", cmd.items)

\* C7 amended: the same for non-empty known_items; with no known items the
\* literal input is stored and no "no close match" notice is given.
C7_FuzzyStore ==
    OneWant =>
        LET want == Wants(cmd.items)[1]
        IN  IF BestKnown(want, cmd.known) # {}
            THEN /\ \E x \in BestKnown(want, cmd.known) : StoredAs(x)
                 /\ ~Reports("no_close_match", cmd.items)
            ELSE /\ StoredAs(want)
                 /\ Reports("no_close_match", cmd.items) <=> cmd.known # {}

\* A want-string of similarity exactly 0.6 to the only known item was
\* replaced by it and appended.
C7_Witness ==
    /\ OneWant
    /\ \E x \in cmd.known :
           /\ 10 * Ratio(x, Wants(cmd.items)[1])[1] = 6 * Ratio(x, Wants(cmd.items)[1])[2]
           /\ ListOf(cmd.uid) = Append(cmd_before, x)
           /\ reply.chosen = <<x>>

-----------------------------------------------------------------------------
(***************************************************************************)
(* SpecCtl: the polling loop under its controls: the autoscrape command of *)
(* admins and others, bot.close(), cancellation of the task, with OWNER_ID *)
(* set or not, and manual scrapes running beside it.  The loop task always *)
(* gets to run again (asyncio resumes a task whose sleep, fetch or send is *)
(* over), hence the weak fairness of its steps.                            *)
(***************************************************************************)
CtlStocks ==
    {StockOf(<<Item(<<A_>>, "5")>>, <<>>),
     StockOf(<<Item(<<A_>>, "5")>>, <<Item(<<a_>>, "5")>>)}

CtlResults ==
    {Ok(st) : st \in CtlStocks} \cup {Err("Request Timeout"), Err("Cloudflare 520 Error")}

OwnerIds == {"", "42"}

InitCtl ==
    /\ ClockIdle
    /\ RetryIdle
    /\ subscriptions \in LoadedSubscriptions
    /\ known_items = {} /\ last_snapshot = <<>>
    /\ autoscrape_enabled = TRUE /\ closed = FALSE /\ cancelled = FALSE
    /\ owner_id \in OwnerIds
    /\ pc_loop = "wait_ready" /\ LoopIdle
    /\ ManIdle
    /\ CmdIdle /\ saved_subs = save_subs(subscriptions)

NextCtl ==
    \/ LoopStep(CtlResults)
    \/ ManStep(CtlResults)
    \/ \E enable \in BOOLEAN, admin \in BOOLEAN : Autoscrape(enable, admin)
    \/ Close
    \/ LoopCancel

SpecCtl == InitCtl /\ [][NextCtl]_vars /\ WF_vars(LoopStep(CtlResults))

LoopSends == {"send_critical", "send_digest", "send_embed"}

\* The loop has computed the next aligned poll time (line 249) and waits
\* for it or, the time being due, scrapes.
ComputedNextTime == pc_loop \in {"sleep_wait", "scrape"}

\* C8 as stated: the loop ends only on cancellation or shutdown, and after
\* an exception in a cycle (the cooldown of line 292) it eventually computes
\* a next aligned poll time again, unless it has ended that way.
C8_CooldownLeadsToNextTime ==
    /\ [](pc_loop = "done" => closed \/ cancelled)
    /\ (pc_loop = "cooldown") ~> (ComputedNextTime \/ pc_loop = "done")

\* C8 amended: the loop ends only on cancellation or shutdown, and after an
\* exception in a cycle it eventually tests the enable flag again: it then
\* computes a next aligned poll time if autoscrape is enabled, and sleeps
\* 10 s before the next test if it is disabled.
C8_CooldownLeadsToNextTest ==
    /\ [](pc_loop = "done" => closed \/ cancelled)
    /\ (pc_loop = "cooldown") ~> (ComputedNextTime \/ pc_loop = "sleep_disabled" \/ pc_loop = "done")
    /\ [][(pc_loop = "top" /\ pc_loop' # "top" /\ autoscrape_enabled /\ ~closed /\ ~cancelled')
            => ComputedNextTime']_vars

\* A send raised after the digest of the cycle had gone out: the loop is in
\* its cooldown, neither closed nor cancelled.
C8_Witness ==
    /\ pc_loop = "cooldown" /\ ~closed /\ ~cancelled
    /\ loop_sent # <<>>

\* C9: the loop never calls scrape_with_retries (it enters "scrape") at a
\* moment when autoscrape_enabled is false, however the autoscrape command
\* interleaves with its waits.
C9_NoScrapeWhileDisabled ==
    [][(pc_loop # "scrape" /\ pc_loop' = "scrape") => autoscrape_enabled]_vars

\* The step is one of the polling loop's.
LoopStepTaken == <<loopVars, retryVars>>' # <<loopVars, retryVars>>

\* The step is the one that processes a successful scrape (lines 272-275).
LoopProcesses == pc_loop \notin LoopSends /\ pc_loop' \in {"send_digest", "send_embed"}

\* C10: no step of the loop other than the processing of a successful scrape
\* changes last_snapshot or known_items, so a cycle that ends with every
\* attempt failed, or without a channel, leaves them as they were; the loop
\* sends the critical message only after DefaultMaxAttempts failed attempts,
\* as the first message of the cycle, and once it is sent the cycle's
\* messages are that one alone, tagging the owner or "@jaymaca".
C10_FailedCycleFrame ==
    /\ [][(LoopStepTaken /\ ~LoopProcesses) => UNCHANGED <<last_snapshot, known_items>>]_vars
    /\ [][(pc_loop = "scrape" /\ pc_loop' \in {"send_critical", "sleep_nochannel"})
            => UNCHANGED <<last_snapshot, known_items>>]_vars
    /\ [][(pc_loop = "scrape" /\ pc_loop' = "send_critical")
            => /\ attempts = DefaultMaxAttempts
               /\ loop_error' \in FetchErrors]_vars
    /\ [](pc_loop = "send_critical" => loop_sent = <<>>)
    /\ [][(pc_loop = "send_critical" /\ pc_loop' = "top")
            => loop_sent' = <<[kind |-> "critical",
                               tag |-> IF owner_id # "" THEN <<"<@", owner_id, ">">>
                                       ELSE <<"@jaymaca">>,
                               error |-> loop_error]>>]_vars
    /\ [](\A i \in 1..Len(loop_sent) : loop_sent[i].kind = "critical" => Len(loop_sent) = 1)

\* A cycle that found a snapshot in place has failed all its attempts and
\* its critical message, tagging the fallback identity, has been sent.
C10_Witness ==
    /\ pc_loop = "top"
    /\ Len(loop_sent) = 1 /\ loop_sent[1].kind = "critical"
    /\ loop_sent[1].tag = <<"@jaymaca">>
    /\ known_items # {} /\ DOMAIN last_snapshot # {}

-----------------------------------------------------------------------------
\* The step is the one of manual_scrape that processes its scrape
\* (lines 317-318).
ManProcesses == pc_man = "fetch" /\ pc_man' \in {"send_digest", "send_embed"}

\* The snapshot holds the categories of the embed's fields, each with the
\* field's item list, and no other category.
IsExactly(snapshot, fields) ==
    /\ DOMAIN snapshot = {fields[i].name : i \in 1..Len(fields)}
    /\ \A i \in 1..Len(fields) : snapshot[fields[i].name] = fields[i].lines

\* C11: after every successful poll last_snapshot is exactly the snapshot
\* just parsed: the same categories, the same list for each, and no category
\* the new snapshot lacks.
C11_SnapshotReplaced ==
    [][/\ LoopProcesses => IsExactly(last_snapshot', loop_embed'.fields)
       /\ ManProcesses => IsExactly(last_snapshot', man_embed'.fields)]_vars

\* The manual scrape has failed: its fetch returned an error.
ManFailed ==
    \/ pc_man \in {"reply_failed", "chan_failed"}
    \/ \E i \in 1..Len(man_reply) : man_reply[i].kind = "failed"

\* C12 as stated: when a manual scrape fails the error goes to the caller
\* only, and nothing is sent to the channel.
C12_FailureToCallerOnly ==
    ManFailed => pc_man # "chan_failed" /\ man_sent = <<>>

\* C12 amended: when a manual scrape fails the error is sent to the caller
\* and then, with the same error, as one "Manual scrape failed" message to
\* the channel, which gets nothing else; the shared state is left alone.
C12_FailureToCallerThenChannel ==
    /\ [][(pc_man = "fetch" /\ pc_man' = "reply_failed")
            => /\ man_error' \in FetchErrors
               /\ UNCHANGED <<last_snapshot, known_items>>]_vars
    /\ [](pc_man = "reply_failed" => man_reply = <<>> /\ man_sent = <<>>)
    /\ [][(pc_man = "reply_failed" /\ pc_man' \notin {"reply_failed", "error_reply"})
            => /\ pc_man' = "chan_failed"
               /\ man_reply' = <<[kind |-> "failed", tag |-> <<>>, error |-> man_error]>>]_vars
    /\ [](pc_man = "chan_failed" => man_sent = <<>>)
    /\ [][(pc_man = "chan_failed" /\ pc_man' = "idle")
            => man_sent' = <<[kind |-> "manual_failed", tag |-> <<>>, error |-> man_error]>>]_vars
    /\ [](ManFailed => \A i \in 1..Len(man_sent) : man_sent[i].kind = "manual_failed")

\* A failed manual scrape is over: the caller has the error and the channel
\* has the "Manual scrape failed" message.
C12_Witness ==
    /\ pc_man = "idle"
    /\ Len(man_reply) = 1 /\ man_reply[1].kind = "failed"
    /\ Len(man_sent) = 1 /\ man_sent[1].kind = "manual_failed"
    /\ man_sent[1].error = man_reply[1].error

-----------------------------------------------------------------------------
\* The kinds of the messages of a log, in the order they were sent.
Kinds(log) == [i \in 1..Len(log) |-> log[i].kind]

\* Some item of the poll's snapshot, in a category that is evaluated (always
\* notify, or not the list last_snapshot held), has a subscriber.
SomeoneMatched(p) ==
    \E i \in 1..Len(FieldsOf(p)) :
        /\ ~SameAsBefore(p, i)
        /\ \E j \in 1..Len(FieldsOf(p)[i].lines), uid \in Subscribers :
               Subscribed(uid, FieldsOf(p)[i].lines[j][1])

\* What the channel has received when the cycle's sends are over.
DigestThenSummary(digest) ==
    IF digest # <<>> THEN <<"digest", "embed">> ELSE <<"embed">>

\* C13: in a successful cycle, of the loop or manual, the digest is built if
\* and only if some item has a matched subscriber; it is sent as one message
\* before the summary; and when the sends of the cycle are over the channel
\* has received exactly one summary, preceded by the digest if there is one.
C13_OneSummaryDigestFirst ==
    /\ [](\A p \in Polls : Processed(p) =>
            /\ DigestOf(p) # <<>> <=> SomeoneMatched(p)
            /\ DigestPending(p) => DigestOf(p) # <<>> /\ SentOf(p) = <<>>
            /\ ~DigestPending(p) =>
                   Kinds(SentOf(p)) = IF DigestOf(p) # <<>> THEN <<"digest">> ELSE <<>>)
    /\ [][(pc_loop = "send_embed" /\ pc_loop' = "top")
            => Kinds(loop_sent') = DigestThenSummary(loop_digest)]_vars
    /\ [][(pc_man = "send_embed" /\ pc_man' = "reply_ok")
            => Kinds(man_sent') = DigestThenSummary(man_digest)]_vars
    /\ [](pc_man = "reply_ok" => Kinds(man_sent) \in {<<"digest", "embed">>, <<"embed">>})
    /\ [](\A log \in {loop_sent, man_sent} :
            \A i, j \in 1..Len(log) :
                /\ (log[i].kind = "embed" /\ log[j].kind = "embed") => i = j
                /\ (log[i].kind = "digest" /\ log[j].kind = "digest") => i = j
                /\ (log[i].kind = "digest" /\ log[j].kind = "embed") => i < j)

\* The loop has finished a cycle that sent a digest and then the summary,
\* and a manual scrape one that sent the summary alone.
C13_Witness ==
    /\ pc_loop = "top" /\ Kinds(loop_sent) = <<"digest", "embed">>
    /\ pc_man = "reply_ok" /\ Kinds(man_sent) = <<"embed">>

-----------------------------------------------------------------------------
\* C14: every subscribe and unsubscribe writes the table to the file after
\* changing it in memory and before its reply goes out: whenever a reply is
\* on its way or has been sent, what the file holds loads as the table in
\* memory.
C14_SavedBeforeReply ==
    /\ pc_cmd = "reply" => load_subs(saved_subs) = subscriptions
    /\ pc_cmd = "idle" => saved_subs = <<>> /\ subscriptions = <<>>

\* A subscribe and an unsubscribe that changed the table have been answered:
\* the file holds a user whose list lost an entry.
C14_Witness ==
    /\ pc_cmd = "reply" /\ cmd.op = "unsub" /\ reply.removed # <<>>
    /\ Len(saved_subs) >= 1
    /\ \E i \in 1..Len(saved_subs) :
           /\ saved_subs[i].key = cmd.uid
           /\ Len(saved_subs[i].value) = Len(cmd_before) - Len(reply.removed)

-----------------------------------------------------------------------------
\* C15: a successful cycle of the loop replaces last_snapshot and known_items
\* only after its digest and summary have been sent: the step that diffs and
\* matches the fetched stock leaves both as the previous poll left them.
C15_ReplacedAfterSends ==
    [][LoopProcesses => UNCHANGED <<last_snapshot, known_items>>]_vars

-----------------------------------------------------------------------------
\* The category was not in the snapshot processed last: last_snapshot has no
\* list for it, or the list it has names an item that is not in known_items,
\* the names of the snapshot processed last.
AbsentFromPrevious(cat) ==
    \/ cat \notin DOMAIN last_snapshot
    \/ \E j \in 1..Len(last_snapshot[cat]) : last_snapshot[cat][j][1] \notin known_items

\* Every item of the non-empty categories outside the always-notify set that
\* were absent from the previous snapshot is on the digest for each of its
\* subscribers.
ReturningMatched(fields, digest) ==
    \A i \in 1..Len(fields) :
        (/\ fields[i].name \notin AlwaysNotifyLabels
         /\ fields[i].lines # <<>>
         /\ AbsentFromPrevious(fields[i].name))
            => \A j \in 1..Len(fields[i].lines), uid \in Subscribers :
                   Subscribed(uid, fields[i].lines[j][1])
                       => TimesMentioned(digest, fields[i].lines[j][1], uid) >= 1

\* C16: a category outside GEAR/SEEDS/EGGS STOCK that has items and was
\* absent from the snapshot processed just before is treated as changed, all
\* its items matched against the subscribers, whatever earlier snapshots held.
C16_AbsentBeforeIsChanged ==
    [][/\ LoopProcesses => ReturningMatched(loop_embed'.fields, loop_digest')
       /\ ManProcesses => ReturningMatched(man_embed'.fields, man_digest')]_vars

-----------------------------------------------------------------------------
\* known_items and last_snapshot hold the snapshot shown in the fields.
HoldsSnapshot(known, snapshot, fields) ==
    /\ known = NamesIn(fields)
    /\ \A i \in 1..Len(fields) :
           /\ fields[i].name \in DOMAIN snapshot
           /\ snapshot[fields[i].name] = fields[i].lines

NamesInSnapshot ==
    UNION {{last_snapshot[c][j][1] : j \in 1..Len(last_snapshot[c])} :
              c \in DOMAIN last_snapshot}

\* C17: with the loop and a manual scrape interleaved at their awaits,
\* known_items and last_snapshot change in one step, the one in which a task
\* hands its snapshot to build_embed, and after it they hold that snapshot:
\* its item names, and its list for each of its categories.  No other step
\* touches either, so at every await they are those of the snapshot
\* processed last, and every known name is in a list of last_snapshot.
C17_UpdatedTogether ==
    /\ [][/\ LoopProcesses =>
                HoldsSnapshot(known_items', last_snapshot', loop_embed'.fields)
          /\ ManProcesses =>
                HoldsSnapshot(known_items', last_snapshot', man_embed'.fields)
          /\ ~(LoopProcesses \/ ManProcesses) =>
                UNCHANGED <<known_items, last_snapshot>>]_vars
    /\ [](known_items \subseteq NamesInSnapshot)

\* The manual scrape processed its snapshot while the loop was suspended in
\* a send of its own, different, snapshot: both hold the manual one.
C17_Witness ==
    /\ pc_loop = "send_embed" /\ pc_man = "send_embed"
    /\ NamesIn(loop_embed.fields) # NamesIn(man_embed.fields)
    /\ HoldsSnapshot(known_items, last_snapshot, man_embed.fields)
    /\ known_items # {}

-----------------------------------------------------------------------------
(***************************************************************************)
(* The loop and the manual scrape over snapshots in which an item name     *)
(* comes back: twice in the list of one category, or in two categories.    *)
(* The parser appends an entry per list element it finds, whatever names   *)
(* it has already seen.                                                    *)
(***************************************************************************)
FanStocks ==
    {StockOf(<<Item(<<A_>>, "5"), Item(<<A_>>, "3")>>, <<>>),
     StockOf(<<Item(<<A_>>, "5")>>, <<Item(<<A_>>, "5")>>),
     StockOf(<<Item(<<A_>>, "5")>>, <<Item(<<a_>>, "5")>>)}

FanResults == {Ok(st) : st \in FanStocks} \cup {Err("Request Timeout")}

NextFan == LoopStep(FanResults) \/ ManStep(FanResults)

SpecFan == Init /\ [][NextFan]_vars

\* No two lines of the digest are for the same item name.
OneLinePerItem(digest) ==
    \A i, j \in 1..Len(digest) : digest[i].item = digest[j].item => i = j

\* No line of the digest mentions a user twice.
OneMentionPerUser(digest) ==
    \A i \in 1..Len(digest) :
        \A j, k \in 1..Len(digest[i].users) :
            digest[i].users[j] = digest[i].users[k] => j = k

\* C18: the digest of a cycle has at most one line per item name and
\* mentions each user at most once on a line, also when the item name occurs
\* more than once in a category or in several evaluated categories.
C18_FanOutDeduplicated ==
    \A p \in Polls :
        Processed(p) => OneLinePerItem(DigestOf(p)) /\ OneMentionPerUser(DigestOf(p))

-----------------------------------------------------------------------------
(***************************************************************************)
(* The parser of scrape_garden_stock (lines 140-189).  A document is the   *)
(* sequence of the sibling nodes that matter to it: h2 headings, with      *)
(* their text and whether they carry the classes of the generic selector   *)
(* h2.text-xl.font-bold.mb-2.text-center, and ul lists of li.bg-gray-900   *)
(* elements.  An li may lack its img, its span.text-gray-400, or the alt   *)
(* attribute of its img.                                                   *)
(***************************************************************************)
H2(label, generic) ==
    [tag |-> "h2", text |-> label, generic |-> generic, items |-> <<>>]

Ul(items) ==
    [tag |-> "ul", text |-> "", generic |-> FALSE, items |-> items]

Li(name, qty) ==
    [img |-> TRUE, span |-> TRUE, alt |-> TRUE, name |-> name, qty |-> qty]

LiNoSpan(name) ==
    [img |-> TRUE, span |-> FALSE, alt |-> TRUE, name |-> name, qty |-> ""]

LiNoAlt(qty) ==
    [img |-> TRUE, span |-> TRUE, alt |-> FALSE, name |-> <<>>, qty |-> qty]

\* soup.find("h2", string=label): the first such heading, 0 for None.
find(doc, label) ==
    IF \E i \in 1..Len(doc) : doc[i].tag = "h2" /\ doc[i].text = label
    THEN CHOOSE i \in 1..Len(doc) :
             /\ doc[i].tag = "h2" /\ doc[i].text = label
             /\ \A j \in 1..(i - 1) : ~(doc[j].tag = "h2" /\ doc[j].text = label)
    ELSE 0

\* h.find_next_sibling("ul"): the first ul after the heading, 0 for None.
find_next_sibling(doc, h) ==
    IF \E i \in (h + 1)..Len(doc) : doc[i].tag = "ul"
    THEN CHOOSE i \in (h + 1)..Len(doc) :
             doc[i].tag = "ul" /\ \A j \in (h + 1)..(i - 1) : doc[j].tag # "ul"
    ELSE 0

\* data[cat].append((name, qty)) on the defaultdict(list).
DataAppend(data, cat, entry) ==
    DictSet(data, cat, Append(DictGet(data, cat, <<>>), entry))

\* The parse so far: the dict, or the exception that ended it.
Parsing(data) == [raised |-> FALSE, data |-> data, error |-> None]

ParseRaised(e) == [raised |-> TRUE, data |-> <<>>, error |-> e]

\* One li: skipped unless it has img and span.  subscript is TRUE where the
\* code reads img["alt"] (KeyError without the attribute) and FALSE where
\* it reads img.get("alt", "").
AppendLi(acc, cat, li, subscript) ==
    IF acc.raised \/ ~(li.img /\ li.span) THEN acc
    ELSE IF ~li.alt /\ subscript THEN ParseRaised("Parse error: 'alt'")
    ELSE Parsing(DataAppend(acc.data, cat, Item(Strip(li.name), li.qty)))

RECURSIVE AppendList(_, _, _, _, _)
AppendList(acc, cat, items, i, subscript) ==
    IF i > Len(items) THEN acc
    ELSE AppendList(AppendLi(acc, cat, items[i], subscript), cat, items, i + 1, subscript)

\* The list found for a heading, if any, is read into data[cat].
AppendUl(doc, acc, u, cat, subscript) ==
    IF u = 0 THEN acc ELSE AppendList(acc, cat, doc[u].items, 1, subscript)

\* A heading, if found, and the list after it.
AppendHeading(doc, acc, h, cat, subscript) ==
    IF h = 0 THEN acc ELSE AppendUl(doc, acc, find_next_sibling(doc, h), cat, subscript)

\* Lines 158-172: every heading of the generic selector except SEEDS STOCK.
RECURSIVE AppendOthers(_, _, _)
AppendOthers(doc, acc, i) ==
    IF i > Len(doc) THEN acc
    ELSE IF doc[i].tag = "h2" /\ doc[i].generic /\ doc[i].text # "SEEDS STOCK"
    THEN AppendOthers(doc, AppendHeading(doc, acc, i, doc[i].text, TRUE), i + 1)
    ELSE AppendOthers(doc, acc, i + 1)

\* Lines 144-155, 158-172, 175-185 in turn.
ParseDocument(doc) ==
    AppendHeading(doc,
        AppendOthers(doc,
            AppendHeading(doc, Parsing(<<>>), find(doc, "SEEDS STOCK"),
                          "SEEDS STOCK", FALSE),
            1),
        find(doc, "EGGS STOCK"), "EGGS STOCK", FALSE)

\* return data, None / return None, f"Parse error: {str(e)}"
ParseReturn(acc) == IF acc.raised THEN Err(acc.error) ELSE Ok(acc.data)

\* ---- documents
Labels == {"SEEDS STOCK", "GEAR STOCK", "EGGS STOCK"}

LiLists ==
    { <<>>,
      <<Li(<<A_>>, "5")>>,
      <<Li(<<A_>>, "5"), LiNoSpan(<<a_>>), Li(<<SP_, b_, SP_>>, "3")>>,
      <<LiNoAlt("2")>> }

\* A heading directly followed by its list.
Sections ==
    {<<H2(label, generic), Ul(items)>> :
        label \in Labels, generic \in BOOLEAN, items \in LiLists}

\* One section, or two sections of different categories.
Documents ==
    Sections \cup
    {p[1] \o p[2] : p \in {q \in Sections \X Sections : q[1][1].text # q[2][1].text}}

NetworkErrors == {"Request Timeout", "Cloudflare 520 Error"}

\* ---- scrape_garden_stock, one call after another
\* The GET is sent.
ScrapeGet ==
    /\ rpc = "idle"
    /\ rpc' = "fetch"
    /\ UNCHANGED <<max_attempts, attempts, error, delays, outcomes, ret, text,
                   clockVars, botVars, loopVars, manVars, cmdVars>>

\* The body arrives with status 200 and is parsed.
ScrapeParsed(doc) ==
    /\ rpc = "fetch"
    /\ text' = doc
    /\ ret' = ParseReturn(ParseDocument(doc))
    /\ outcomes' = <<ret'>>
    /\ rpc' = "returned"
    /\ UNCHANGED <<max_attempts, attempts, error, delays,
                   clockVars, botVars, loopVars, manVars, cmdVars>>

\* The request times out or the status is not 200.
ScrapeFailed(e) ==
    /\ rpc = "fetch"
    /\ ret' = Err(e)
    /\ outcomes' = <<ret'>>
    /\ rpc' = "returned"
    /\ UNCHANGED <<max_attempts, attempts, error, delays, text,
                   clockVars, botVars, loopVars, manVars, cmdVars>>

InitParse ==
    /\ ClockIdle
    /\ RetryIdle
    /\ BotIdle
    /\ pc_loop = "unstarted" /\ LoopIdle
    /\ ManIdle
    /\ CmdIdle /\ saved_subs = <<>>

NextParse ==
    \/ ScrapeGet
    \/ \E doc \in Documents : ScrapeParsed(doc)
    \/ \E e \in NetworkErrors : ScrapeFailed(e)
    \/ RetryTaken

SpecParse == InitParse /\ [][NextParse]_vars

\* The entries of the list that have both img and span, in order.
RECURSIVE CompleteEntries(_, _)
CompleteEntries(items, i) ==
    IF i > Len(items) THEN <<>>
    ELSE (IF items[i].img /\ items[i].span
          THEN <<Item(Strip(items[i].name), items[i].qty)>> ELSE <<>>)
         \o CompleteEntries(items, i + 1)

\* The headings the parser looks for: those of the generic selector, and
\* SEEDS STOCK and EGGS STOCK whatever their classes.
CategoryHeadings(doc) ==
    {i \in 1..Len(doc) :
        /\ doc[i].tag = "h2"
        /\ doc[i].generic \/ doc[i].text \in {"SEEDS STOCK", "EGGS STOCK"}}

\* C19: when a document has been parsed, the item list of each category is
\* exactly the complete entries of the list after the category's heading,
\* each once and in document order (no list where there is no such entry).
C19_ParsedListsExact ==
    (rpc = "returned" /\ ret.ok) =>
        \A h \in CategoryHeadings(text) :
            DictGet(ret.stock, text[h].text, <<>>) =
                CompleteEntries(text[find_next_sibling(text, h)].items, 1)

-----------------------------------------------------------------------------
\* C20: with autoscrape enabled, the loop never goes from the top of a cycle
\* to a poll without sleeping until the next aligned time first, whatever
\* the clock reads, the last minutes before midnight included: it polls at
\* most once per aligned 5-minute slot.
C20_WaitsBeforeEachPoll ==
    [][(pc_loop = "top" /\ autoscrape_enabled /\ ~closed)
          => pc_loop' \in {"top", "sleep_wait"}]_vars

=============================================================================
